---- MODULE Spec2Model ----
(***************************************************************************)
(* Model of the attendance dashboard (src/app.py) and of the question      *)
(* paper blueprint page (src/pages/blueprint.py).                          *)
(*                                                                         *)
(*   Spec           the dashboard script: the two sheets, one run of       *)
(*                  load_and_process_data and the rendering of its result  *)
(*   BlueprintSpec  the blueprint page: the unit selectors and the script  *)
(*                  rerun that follows every change                        *)
(*   CacheSpec      the dashboard script with its two caches and a clock   *)
(***************************************************************************)
EXTENDS Integers, Sequences, FiniteSets, TLC

VARIABLES
    roster,         \* the "Roster" tab: rows [id, name]
    log,            \* the "Form Responses 1" tab: rows [id, ts]
    fetched,        \* what the last run of load_and_process_data read
    report,         \* (df_attendance, last_update, present_ids) of app.py:87
    screen,         \* what the dashboard rendered in the last script run
    unit_sel,       \* blueprint.py: the unit selectbox of every question slot
    question_data,  \* blueprint.py: the list built by the tagging loops
    page,           \* blueprint.py: what the page rendered in the last script run
    now,            \* the clock, in seconds
    outer,          \* the @st.cache_data(ttl=10) entry of load_and_process_data
    inner_roster,   \* the conn.read(worksheet="Roster", ttl=5) entry
    inner_log,      \* the conn.read(worksheet="Form Responses 1", ttl=5) entry
    shown           \* the report the last timed script run displayed

appVars == <<roster, log, fetched, report, screen>>
bpVars == <<unit_sel, question_data, page>>
cacheVars == <<now, outer, inner_roster, inner_log, shown>>
vars == <<appVars, bpVars, cacheVars>>

\* ---------------------------------------------------------------- bounds
MaxRoster == 2      \* rows of the Roster tab
MaxLog == 2         \* rows of the Form Responses 1 tab

\* ------------------------------------------------------ cells of a sheet
\* A cell of an id column as pandas holds it: missing, int64, float64, text.
NaN == [t |-> "nan", n |-> 0, s |-> ""]
IntCell(n) == [t |-> "int", n |-> n, s |-> ""]
FloatCell(n) == [t |-> "float", n |-> n, s |-> ""]
StrCell(s) == [t |-> "str", n |-> 0, s |-> s]

IdCells == {NaN, IntCell(1), IntCell(2), FloatCell(2), StrCell("2")}

\* A Timestamp cell: a parsable instant (seconds after the first scan) or not.
NaT == [ok |-> FALSE, at |-> 0]
Ts(n) == [ok |-> TRUE, at |-> n]

STATUS_PRESENT == "PRESENT"
STATUS_ABSENT == "ABSENT"

ERROR_BANNER == "Error loading or processing data. Please check your Google Sheet tabs (Roster / Form Responses 1) and column names (Student ID / ID)."
EXCEPTION_TRACE == "st.exception(e)"
ROSTER_WARNING == "Roster data could not be loaded. Please ensure the 'Roster' tab exists and connection is successful."

NO_SCANS == "N/A (No scans recorded yet)"
TS_ERROR == "Error reading timestamp"
FAILED_TO_LOAD == "Failed to load"

\* What a run of the function can meet: both reads succeed; the Roster read
\* raises; the log read raises; the log has no Timestamp column.
Outcomes == {"ok", "roster_fail", "log_fail", "ts_fail"}

\* ------------------------------------------------- load_and_process_data
\* .dropna(subset=[ID column])
DropNa(sheet) == SelectSeq(sheet, LAMBDA r : r.id.t # "nan")

\* str(x) of one cell, as .astype(str) applies it
AsTypeStr(c) ==
    CASE c.t = "int" -> ToString(c.n)
      [] c.t = "float" -> ToString(c.n) \o ".0"
      [] c.t = "str" -> c.s
      [] OTHER -> "nan"

\* df[ID column] = df[ID column].astype(str)
AsTypeStrCol(df) == [i \in DOMAIN df |-> [df[i] EXCEPT !.id = AsTypeStr(@)]]

\* conn.read(worksheet=ROSTER_SHEET_NAME).dropna(...); astype(str); set_index
df_roster(sheet) == AsTypeStrCol(DropNa(sheet))

\* conn.read(worksheet=ATTENDANCE_LOG_SHEET_NAME).dropna(...); astype(str)
df_log(sheet) == AsTypeStrCol(DropNa(sheet))

\* A log reduced with drop_duplicates(keep=False): ids scanned exactly once.
present_ids_scanned_once(dflog) ==
    {dflog[j].id : j \in {k \in DOMAIN dflog :
                              \A m \in DOMAIN dflog : dflog[m].id = dflog[k].id => m = k}}

\* set(df_log[LOG_ID_COL].unique())
present_ids(dflog) == {dflog[j].id : j \in DOMAIN dflog}

check_status(row_id, pids) ==
    IF row_id \in pids THEN STATUS_PRESENT ELSE STATUS_ABSENT

MaxOf(S) == CHOOSE m \in S : \A x \in S : x <= m

\* strftime("%Y-%m-%d %I:%M:%S %p") of an instant n seconds after the first scan
Strftime(n) == "2025-01-01 09:00:0" \o ToString(n) \o " AM"

\* pd.to_datetime(errors='coerce'), .max(), pd.isna, strftime
last_update(dflog) ==
    LET parsed == {dflog[j].ts.at : j \in {k \in DOMAIN dflog : dflog[k].ts.ok}}
    IN  IF parsed = {} THEN NO_SCANS ELSE Strftime(MaxOf(parsed))

\* The except branch: st.error, st.exception, and the empty report.
FailedReport ==
    [df |-> <<>>, last_update |-> FAILED_TO_LOAD, present_ids |-> {},
     messages |-> {ERROR_BANNER, EXCEPTION_TRACE}]

load_and_process_data(rosterSheet, logSheet, outcome) ==
    IF outcome \in {"roster_fail", "log_fail"}
    THEN FailedReport
    ELSE LET r == df_roster(rosterSheet)
             l == df_log(logSheet)
             pids == present_ids(l)
         IN  [df |-> [i \in DOMAIN r |->
                        [id |-> r[i].id, name |-> r[i].name,
                         status |-> check_status(r[i].id, pids)]],
              last_update |-> IF outcome = "ts_fail" THEN TS_ERROR
                              ELSE last_update(l),
              present_ids |-> pids,
              messages |-> {}]

\* ------------------------------------------------------------- rendering
total_students(rep) == Len(rep.df)
present_count(rep) == Cardinality(rep.present_ids)
absent_count(rep) == total_students(rep) - present_count(rep)

df_present(rep) == SelectSeq(rep.df, LAMBDA r : r.status = STATUS_PRESENT)
df_absent(rep) == SelectSeq(rep.df, LAMBDA r : r.status = STATUS_ABSENT)

\* if not df_attendance.empty: metrics and the two tabs; else: st.warning
Render(rep) ==
    IF rep.df # <<>>
    THEN [view |-> "metrics",
          messages |-> rep.messages,
          total_students |-> total_students(rep),
          present_count |-> present_count(rep),
          absent_count |-> absent_count(rep),
          last_scan |-> rep.last_update,
          tab_present |-> df_present(rep),
          tab_absent |-> df_absent(rep)]
    ELSE [view |-> "warning",
          messages |-> rep.messages \cup {ROSTER_WARNING},
          total_students |-> 0,
          present_count |-> 0,
          absent_count |-> 0,
          last_scan |-> "",
          tab_present |-> <<>>,
          tab_absent |-> <<>>]

\* ======================================================= blueprint.py
UNITS ==
    <<"Unit 8: Application of Percentages",
      "Unit 9: Rational Numbers",
      "Unit 10: Algebraic Expressions & Equations",
      "Unit 11: Mensuration",
      "Unit 12: Sets",
      "Unit 13: Probability">>

SELECT == "Select"

\* The order groupby gives the units: sorted as text, "Unit 10" < "Unit 8".
SortedUnits == <<UNITS[3], UNITS[4], UNITS[5], UNITS[6], UNITS[1], UNITS[2]>>

FIRST_Q == 1        \* range(1, 4)
FIRST_SUB_Q == 4    \* range(4, 11)
LAST_Q == 10

MaxTagged == 3      \* slots tagged at one time

\* The selectboxes in script order: Q1..Q3, then Q4(i), Q4(ii), ..., Q10(ii).
\* Each slot's Marks selectbox offers one value; the dict takes it as a literal.
SingleSlots ==
    [k \in 1..(FIRST_SUB_Q - FIRST_Q) |->
        [Question |-> "Q" \o ToString(FIRST_Q + k - 1), Marks |-> 1]]
SubSlots ==
    [k \in 1..(2 * (LAST_Q - FIRST_SUB_Q + 1)) |->
        LET q == FIRST_SUB_Q + ((k - 1) \div 2)
        IN  IF k % 2 = 1
            THEN [Question |-> "Q" \o ToString(q) \o "(i)", Marks |-> 2]
            ELSE [Question |-> "Q" \o ToString(q) \o "(ii)", Marks |-> 3]]
Slots == SingleSlots \o SubSlots

\* if unit != "Select": question_data.append({...}), over both loops. The
\* Difficulty and Type of a record are copied from their selectboxes and read
\* by nothing but the preview table; they are left out.
QuestionData(sel) ==
    SelectSeq([k \in DOMAIN Slots |->
                  [Question |-> Slots[k].Question, Unit |-> sel[k],
                   Marks |-> Slots[k].Marks]],
              LAMBDA r : r.Unit # SELECT)

UnitsIn(df) == {df[i].Unit : i \in DOMAIN df}
MarksIn(df) == {df[i].Marks : i \in DOMAIN df}

\* df.groupby(["Unit", "Marks"]).size()
GroupSize(df) ==
    [key \in {<<df[i].Unit, df[i].Marks>> : i \in DOMAIN df} |->
        Cardinality({i \in DOMAIN df : <<df[i].Unit, df[i].Marks>> = key})]

\* .unstack(fill_value=0): a row per unit, a column per marks value in the data
Unstack(g, df) ==
    [u \in UnitsIn(df) |->
        [m \in MarksIn(df) |-> IF <<u, m>> \in DOMAIN g THEN g[<<u, m>>] ELSE 0]]

\* for m in [1, 2, 3]: if m not in blueprint.columns: blueprint[m] = 0
FillColumns(row) ==
    [m \in DOMAIN row \cup {1, 2, 3} |-> IF m \in DOMAIN row THEN row[m] ELSE 0]

\* The counts added up without their weights.
TotalMarksUnweighted(row) == row[1] + row[2] + row[3]

\* blueprint["Total Marks"] = blueprint[1] * 1 + blueprint[2] * 2 + blueprint[3] * 3
TotalMarks(row) == row[1] * 1 + row[2] * 2 + row[3] * 3

\* The blueprint frame after reset_index, the fill loop, Total Marks and rename.
blueprint(df) ==
    LET table == Unstack(GroupSize(df), df)
        units == SelectSeq(SortedUnits, LAMBDA u : u \in DOMAIN table)
    IN  [k \in DOMAIN units |->
            LET row == FillColumns(table[units[k]])
            IN  [Unit |-> units[k], Mark1 |-> row[1], Marks2 |-> row[2],
                 Marks3 |-> row[3], TotalMarks |-> TotalMarks(row)]]

RECURSIVE SumTotalMarks(_)
\* blueprint['Total Marks'].sum()
SumTotalMarks(rows) ==
    IF rows = <<>> THEN 0 ELSE Head(rows).TotalMarks + SumTotalMarks(Tail(rows))

INFO_TAG_QUESTIONS == "Please tag questions to generate blueprint."

\* The page with the aggregation run whatever question_data holds.
PageUnguarded(qd) ==
    [view |-> "blueprint", preview |-> qd, rows |-> blueprint(qd),
     success |-> <<SumTotalMarks(blueprint(qd))>>,
     downloads |-> {"Blueprint_Summary.csv", "Question_Mapping.csv"},
     info |-> <<>>, error |-> FALSE]

\* if question_data: preview, summary, total, downloads; else: st.info
Page(qd) ==
    IF qd # <<>>
    THEN [view |-> "blueprint", preview |-> qd, rows |-> blueprint(qd),
          success |-> <<SumTotalMarks(blueprint(qd))>>,
          downloads |-> {"Blueprint_Summary.csv", "Question_Mapping.csv"},
          info |-> <<>>, error |-> FALSE]
    ELSE [view |-> "info", preview |-> <<>>, rows |-> <<>>,
          success |-> <<>>, downloads |-> {},
          info |-> <<INFO_TAG_QUESTIONS>>, error |-> FALSE]

\* The page as first loaded: every selectbox at its first option.
BlueprintIdle ==
    /\ unit_sel = [k \in DOMAIN Slots |-> SELECT]
    /\ question_data = <<>>
    /\ page = Page(<<>>)

\* ============================================== app.py with its caches
OUTER_TTL == 10     \* @st.cache_data(ttl=10)
INNER_TTL == 5      \* conn.read(..., ttl=5)
MaxTime == 16       \* the clock stops here

NoEntry == [has |-> FALSE, stored_at |-> 0, kind |-> "", roster_at |-> 0, log_at |-> 0]

\* A cache entry is served while it is younger than its ttl.
Valid(entry, ttl) == entry.has /\ now - entry.stored_at < ttl

\* conn.read(worksheet=..., ttl=5): the entry after the call, and the time the
\* rows it returned were fetched from the sheet; ok says whether a fetch
\* succeeds (it is not tried when the entry is served).
ConnRead(entry, ok) ==
    IF Valid(entry, INNER_TTL)
    THEN [entry |-> entry, raised |-> FALSE, at |-> entry.stored_at]
    ELSE IF ok
         THEN [entry |-> [NoEntry EXCEPT !.has = TRUE, !.stored_at = now],
               raised |-> FALSE, at |-> now]
         ELSE [entry |-> entry, raised |-> TRUE, at |-> now]

\* The body of load_and_process_data on the clock: the two reads in order, the
\* second skipped when the first raises; the report it returns (ok or the
\* failed one of the except branch) with the times its inputs were fetched.
Compute(rosterOk, logOk) ==
    LET r == ConnRead(inner_roster, rosterOk)
        l == ConnRead(inner_log, logOk)
    IN  IF r.raised
        THEN [inner_roster |-> r.entry, inner_log |-> inner_log,
              kind |-> "failed", roster_at |-> now, log_at |-> now]
        ELSE IF l.raised
             THEN [inner_roster |-> r.entry, inner_log |-> l.entry,
                   kind |-> "failed", roster_at |-> r.at, log_at |-> now]
             ELSE [inner_roster |-> r.entry, inner_log |-> l.entry,
                   kind |-> "ok", roster_at |-> r.at, log_at |-> l.at]

\* A clear that drops the entry of load_and_process_data and keeps the raw reads.
CacheClearOuterOnly(caches) == [caches EXCEPT !.outer = NoEntry]

\* st.cache_data.clear(): every st.cache_data entry, the raw reads' included.
CacheClear(caches) ==
    [outer |-> NoEntry, inner_roster |-> NoEntry, inner_log |-> NoEntry]

NotShown ==
    [has |-> FALSE, at |-> 0, clicked |-> FALSE, served |-> "", kind |-> "",
     roster_at |-> 0, log_at |-> 0]

CacheIdle ==
    /\ now = 0
    /\ outer = NoEntry
    /\ inner_roster = NoEntry
    /\ inner_log = NoEntry
    /\ shown = NotShown

\* ============================================================ the sheets
\* The Roster tabs: up to MaxRoster rows, no cell written twice (two rows can
\* still carry one id, as 2 and "2").
RosterSheets ==
    UNION {{[i \in 1..n |-> [id |-> f[i], name |-> i]] :
               f \in {g \in [1..n -> IdCells] :
                         \A a, b \in 1..n : g[a] = g[b] => a = b}}
           : n \in 0..MaxRoster}

NoReport == [df |-> <<>>, last_update |-> "", present_ids |-> {}, messages |-> {}]
Blank ==
    [view |-> "blank", messages |-> {}, total_students |-> 0, present_count |-> 0,
     absent_count |-> 0, last_scan |-> "", tab_present |-> <<>>, tab_absent |-> <<>>]

AppIdle ==
    /\ roster = <<>>
    /\ log = <<>>
    /\ fetched = [outcome |-> "none", log |-> <<>>]
    /\ report = NoReport
    /\ screen = Blank

Init ==
    /\ roster \in RosterSheets
    /\ log = <<>>
    /\ fetched = [outcome |-> "none", log |-> <<>>]
    /\ report = NoReport
    /\ screen = Blank
    /\ BlueprintIdle
    /\ CacheIdle

\* The QR scanner's form appends one row; the form stamps it with the time of
\* submission, which a hand-edited cell can leave unparsable.
AppendScan(c, parsable) ==
    /\ Len(log) < MaxLog
    /\ log' = Append(log, [id |-> c, ts |-> IF parsable THEN Ts(Len(log) + 1) ELSE NaT])
    /\ UNCHANGED <<roster, fetched, report, screen, bpVars, cacheVars>>

\* One run of the script in which load_and_process_data executes its body.
RunScript(outcome) ==
    /\ fetched' = [outcome |-> outcome,
                   log |-> IF outcome \in {"ok", "ts_fail"} THEN log ELSE <<>>]
    /\ report' = load_and_process_data(roster, log, outcome)
    /\ screen' = Render(report')
    /\ UNCHANGED <<roster, log, bpVars, cacheVars>>

Next ==
    \/ \E c \in IdCells, p \in BOOLEAN : AppendScan(c, p)
    \/ \E o \in Outcomes : RunScript(o)

Spec == Init /\ [][Next]_vars

\* ------------------------------------------------------ blueprint actions
\* The options a user picks from: "Select", "Unit 8: ..." and "Unit 10: ...".
UnitOptions == {SELECT, UNITS[1], UNITS[3]}

Tagged(sel) == Cardinality({k \in DOMAIN sel : sel[k] # SELECT})

BlueprintInit ==
    /\ AppIdle
    /\ BlueprintIdle
    /\ CacheIdle

\* The user changes one unit selectbox; the script reruns from the top.
SelectUnit(k, u) ==
    /\ unit_sel[k] # u
    /\ Tagged([unit_sel EXCEPT ![k] = u]) <= MaxTagged
    /\ unit_sel' = [unit_sel EXCEPT ![k] = u]
    /\ question_data' = QuestionData(unit_sel')
    /\ page' = Page(question_data')
    /\ UNCHANGED <<appVars, cacheVars>>

BlueprintNext == \E k \in DOMAIN Slots, u \in UnitOptions : SelectUnit(k, u)

BlueprintSpec == BlueprintInit /\ [][BlueprintNext]_vars

\* ---------------------------------------------------------- cache actions
CacheInit ==
    /\ AppIdle
    /\ BlueprintIdle
    /\ CacheIdle

Tick ==
    /\ now < MaxTime
    /\ now' = now + 1
    /\ UNCHANGED <<outer, inner_roster, inner_log, shown, appVars, bpVars>>

\* One run of the script, taken to last less than a tick of the clock (a value
\* is stored in its cache at the time its inputs were fetched): the cached
\* call of line 87, then the button of
\* line 90 (clicked: this run is the rerun the click caused), then the render.
ScriptRun(clicked, rosterOk, logOk) ==
    LET hit == Valid(outer, OUTER_TTL)
        c == Compute(rosterOk, logOk)
        value == IF hit THEN outer
                 ELSE [has |-> TRUE, stored_at |-> now, kind |-> c.kind,
                       roster_at |-> c.roster_at, log_at |-> c.log_at]
        after == [outer |-> value,
                  inner_roster |-> IF hit THEN inner_roster ELSE c.inner_roster,
                  inner_log |-> IF hit THEN inner_log ELSE c.inner_log]
        final == IF clicked THEN CacheClear(after) ELSE after
    IN  /\ outer' = final.outer
        /\ inner_roster' = final.inner_roster
        /\ inner_log' = final.inner_log
        /\ shown' = [has |-> TRUE, at |-> now, clicked |-> clicked,
                     served |-> IF hit THEN "cache" ELSE "source",
                     kind |-> value.kind, roster_at |-> value.roster_at,
                     log_at |-> value.log_at]
        /\ UNCHANGED <<now, appVars, bpVars>>

CacheNext ==
    \/ Tick
    \/ \E clicked \in BOOLEAN, rosterOk \in BOOLEAN, logOk \in BOOLEAN :
          ScriptRun(clicked, rosterOk, logOk)

CacheSpec == CacheInit /\ [][CacheNext]_vars

\* ------------------------------------------------------------ properties
\* The last run read both sheets.
Loaded == fetched.outcome \in {"ok", "ts_fail"}

\* The roster rows that have an id: the roster entries of the report.
Entries == DropNa(roster)

CountStatus(df, s) == Cardinality({i \in DOMAIN df : df[i].status = s})

\* Cells that denote a number, and the number.
NumericLooking(c) ==
    c.t \in {"int", "float"} \/ (c.t = "str" /\ \E n \in 0..9 : ToString(n) = c.s)
NumberOf(c) ==
    IF c.t = "str" THEN CHOOSE n \in 0..9 : ToString(n) = c.s ELSE c.n

\* C1: the present and absent counts on the dashboard are the numbers of
\* roster entries classified PRESENT and ABSENT, they add up to the length of
\* the roster and neither is negative; scans of ids that are not on the
\* roster do not add to the present count.
C1_CountsAreRosterCounts ==
    (Loaded /\ screen.view = "metrics") =>
        /\ screen.present_count = CountStatus(report.df, STATUS_PRESENT)
        /\ screen.absent_count = CountStatus(report.df, STATUS_ABSENT)
        /\ screen.present_count + screen.absent_count = Len(Entries)
        /\ screen.present_count >= 0
        /\ screen.absent_count >= 0

\* C2: after a successful load every roster entry carries exactly one status,
\* PRESENT if and only if its id (as normalized) is the id of some log row
\* with a non-missing id, ABSENT otherwise; and one more scan row of an id
\* already scanned changes neither present_ids nor any status.
C2_StatusIffScanned ==
    Loaded =>
        /\ Len(report.df) = Len(Entries)
        /\ \A i \in DOMAIN Entries :
            /\ report.df[i].name = Entries[i].name
            /\ report.df[i].status \in {STATUS_PRESENT, STATUS_ABSENT}
            /\ report.df[i].status = STATUS_PRESENT <=>
                 \E j \in DOMAIN fetched.log :
                    /\ fetched.log[j].id.t # "nan"
                    /\ AsTypeStr(fetched.log[j].id) = AsTypeStr(Entries[i].id)
        /\ \A j \in DOMAIN fetched.log :
             fetched.log[j].id.t # "nan" =>
                LET pids == present_ids(df_log(Append(fetched.log, fetched.log[j])))
                IN  /\ pids = report.present_ids
                    /\ \A i \in DOMAIN report.df :
                          check_status(report.df[i].id, pids) = report.df[i].status

\* C2's case: an id scanned twice, one student present and one absent.
C2_Witness ==
    /\ Loaded
    /\ \E j, k \in DOMAIN fetched.log :
          /\ j # k
          /\ fetched.log[j].id.t # "nan"
          /\ fetched.log[k].id.t # "nan"
          /\ AsTypeStr(fetched.log[j].id) = AsTypeStr(fetched.log[k].id)
    /\ \E i \in DOMAIN report.df : report.df[i].status = STATUS_PRESENT
    /\ \E i \in DOMAIN report.df : report.df[i].status = STATUS_ABSENT

\* C3: when the roster loads and the read of the scan log fails, the report
\* is the full roster with every student ABSENT and present_ids empty.
C3_LogFailureIsEmptyLog ==
    fetched.outcome = "log_fail" =>
        /\ Len(report.df) = Len(Entries)
        /\ \A i \in DOMAIN report.df : report.df[i].status = STATUS_ABSENT
        /\ report.present_ids = {}

\* C4: a roster that loads with no rows is shown with a message of its own:
\* the screen shows a message, none of its messages is one the screen of a
\* failed load shows, and the screen is not that of a failed load.
C4_EmptyIsNotFailure ==
    (Loaded /\ Entries = <<>>) =>
        /\ screen.messages # {}
        /\ screen.messages \cap Render(FailedReport).messages = {}
        /\ screen # Render(FailedReport)

\* C8: a roster id and a log id that denote the same number, whatever the
\* types of their cells, make the student PRESENT.
C8_SameNumberIsPresent ==
    Loaded =>
        \A i \in DOMAIN report.df : \A j \in DOMAIN fetched.log :
            LET rc == roster[report.df[i].name].id
                lc == fetched.log[j].id
            IN  (NumericLooking(rc) /\ NumericLooking(lc) /\ NumberOf(rc) = NumberOf(lc))
                    => report.df[i].status = STATUS_PRESENT

CountOf(df, u, m) ==
    Cardinality({i \in DOMAIN df : df[i].Unit = u /\ df[i].Marks = m})

RECURSIVE SumMarks(_)
SumMarks(df) == IF df = <<>> THEN 0 ELSE Head(df).Marks + SumMarks(Tail(df))

\* C6: with at least one question tagged, the blueprint has one row per
\* tagged unit, each row has a count for each of the marks values 1, 2 and 3
\* (0 where the unit has no such question), its Total Marks is
\* 1*count1 + 2*count2 + 3*count3, and the total shown is the sum of Marks
\* over the tagged questions, also when a marks value occurs nowhere.
C6_BlueprintTotals ==
    question_data # <<>> =>
        /\ page.view = "blueprint"
        /\ {page.rows[k].Unit : k \in DOMAIN page.rows} = UnitsIn(question_data)
        /\ Len(page.rows) = Cardinality(UnitsIn(question_data))
        /\ \A k \in DOMAIN page.rows :
             LET r == page.rows[k]
             IN  /\ r.Mark1 = CountOf(question_data, r.Unit, 1)
                 /\ r.Marks2 = CountOf(question_data, r.Unit, 2)
                 /\ r.Marks3 = CountOf(question_data, r.Unit, 3)
                 /\ r.TotalMarks = 1 * r.Mark1 + 2 * r.Marks2 + 3 * r.Marks3
        /\ page.success = <<SumMarks(question_data)>>

\* C6's case: only questions of Q1..Q3 are tagged, two of them at least, so
\* no question is worth 2 or 3 marks and the columns 2 and 3 are filled in.
C6_Witness ==
    /\ Len(question_data) >= 2
    /\ MarksIn(question_data) = {1}
    /\ page.view = "blueprint"
    /\ \A k \in DOMAIN page.rows : page.rows[k].Marks2 = 0 /\ page.rows[k].Marks3 = 0

C9_ClickShowsFreshData ==
    (shown.has /\ shown.clicked) =>
        /\ shown.roster_at = shown.at
        /\ shown.log_at = shown.at

====
